---------------------------- MODULE Spec2Model ----------------------------
(***************************************************************************)
(* A model of claude.js (KudoAI/claude.js): the browser client object      *)
(* `claudejs`, its lazily cached organization identifier, its asynchronous *)
(* operations, and the decoder of the streaming response body that         *)
(* sendMessage applies when returnResponse is true.                        *)
(*                                                                         *)
(* JavaScript strings are modelled as sequences of one-character strings,  *)
(* so that split, JSON.parse, join and trim are computed as the code       *)
(* computes them.                                                          *)
(***************************************************************************)
EXTENDS Integers, Sequences, FiniteSets, TLC

VARIABLES
    chunks,       \* the events the server wrote into the response body, in order
    cutTail,      \* TRUE when the body ends without a final line terminator
    bodyText,     \* the text response.text() resolved to
    dstage,       \* position in sendMessage's return path: receiving, received, returned
    returned,     \* what the `return` of sendMessage produced (a string or a throw)
    round,        \* 1: the server's body; 2: the re-wrapped result of round 1
    firstReturned, \* the value returned in round 1 (kept for round 2)
    lib,          \* which of the library files the page has loaded
    orgUUID,      \* claudejs.orgUUID, the cached organization identifier
    calls,        \* the calls of claudejs operations that are running or settled
    serverOrg,    \* the server's memberships[0].organization.uuid of the account
    serverChats,  \* the server's chat list of the organization, in list order
    faults,       \* how many requests the network or the server has failed so far
    crypto,       \* TRUE when the page has window.crypto
    minted,       \* how many uuids window.crypto.randomUUID() has handed out
    wire          \* the last call of a verb of an endpoint object, and what it sent

dvars == <<chunks, cutTail, bodyText, dstage, returned, round, firstReturned>>
cvars == <<lib, orgUUID, calls, serverOrg, serverChats, faults, crypto, minted>>
vars == <<dvars, cvars, wire>>

----------------------------------------------------------------------------
(* Characters and strings *)

LF == "\n"
CR == "\r"
QUOTE == "\""
BSLASH == "\\"

\* the JavaScript value undefined, where a string is expected: a value that
\* is no sequence of characters
Undefined == <<"undefined">>

\* the separator sendMessage splits each line on
DataPrefix == <<"d", "a", "t", "a", ":", " ">>

\* the field sendMessage reads from each parsed line
CompletionKey == <<"c", "o", "m", "p", "l", "e", "t", "i", "o", "n">>

IsNewline(c) == c = LF \/ c = CR

\* the characters String.prototype.trim removes (those of the alphabet used)
IsWhite(c) == c = " " \/ c = LF \/ c = CR

\* s.startsWith(p) from position i (1-based)
MatchesAt(s, i, p) ==
    /\ i + Len(p) - 1 <= Len(s)
    /\ \A k \in 1..Len(p) : s[i + k - 1] = p[k]

\* String.prototype.trim
RECURSIVE TrimLeft(_)
TrimLeft(s) == IF s # <<>> /\ IsWhite(Head(s)) THEN TrimLeft(Tail(s)) ELSE s

RECURSIVE TrimRight(_)
TrimRight(s) ==
    IF s # <<>> /\ IsWhite(s[Len(s)]) THEN TrimRight(SubSeq(s, 1, Len(s) - 1)) ELSE s

Trim(s) == TrimRight(TrimLeft(s))

\* the least index of hits in i..Len(s), or Len(s) + 1
FirstIndex(s, i, hits) ==
    LET from == {j \in i..Len(s) : j \in hits}
    IN IF from # {}
       THEN CHOOSE j \in from : \A k \in from : j <= k
       ELSE Len(s) + 1

\* text.split(/[\r\n]+/): the parts between maximal runs of CR/LF; a run at
\* the start or the end leaves an empty part there, and "" splits to [""]
RECURSIVE SplitLinesFrom(_, _)
SplitLinesFrom(s, i) ==
    LET j == FirstIndex(s, i, {k \in 1..Len(s) : IsNewline(s[k])})
    IN IF j > Len(s) THEN <<SubSeq(s, i, Len(s))>>
       ELSE <<SubSeq(s, i, j - 1)>>
            \o SplitLinesFrom(s, FirstIndex(s, j, {k \in 1..Len(s) : ~IsNewline(s[k])}))

SplitLines(s) == SplitLinesFrom(s, 1)

\* str.split(sep) for a non-empty string separator: the parts between the
\* occurrences of sep, found left to right without overlap
RECURSIVE SplitOnFrom(_, _, _)
SplitOnFrom(s, sep, i) ==
    LET j == FirstIndex(s, i, {k \in 1..Len(s) : MatchesAt(s, k, sep)})
    IN IF j > Len(s) THEN <<SubSeq(s, i, Len(s))>>
       ELSE <<SubSeq(s, i, j - 1)>> \o SplitOnFrom(s, sep, j + Len(sep))

SplitOn(s, sep) == SplitOnFrom(s, sep, 1)


----------------------------------------------------------------------------
(* JSON *)

\* JSON.stringify of a string value: the quotes, with ", \ and the control
\* characters CR and LF escaped
RECURSIVE JsonEscape(_)
JsonEscape(s) ==
    IF s = <<>> THEN <<>>
    ELSE LET c == Head(s)
             e == IF c = QUOTE THEN <<BSLASH, QUOTE>>
                  ELSE IF c = BSLASH THEN <<BSLASH, BSLASH>>
                  ELSE IF c = LF THEN <<BSLASH, "n">>
                  ELSE IF c = CR THEN <<BSLASH, "r">>
                  ELSE <<c>>
         IN e \o JsonEscape(Tail(s))

JsonString(s) == <<QUOTE>> \o JsonEscape(s) \o <<QUOTE>>

\* JSON.stringify of an object whose members are strings: members is a
\* sequence of <<key, value>> pairs, written without any space
RECURSIVE JsonMembers(_)
JsonMembers(members) ==
    IF members = <<>> THEN <<>>
    ELSE JsonString(members[1][1]) \o <<":">> \o JsonString(members[1][2])
         \o (IF Len(members) > 1 THEN <<",">> ELSE <<>>)
         \o JsonMembers(Tail(members))

JsonStringify(members) == <<"{">> \o JsonMembers(members) \o <<"}">>

SyntaxError == [ok |-> FALSE]

RECURSIVE SkipWs(_, _)
SkipWs(s, i) == IF i <= Len(s) /\ IsWhite(s[i]) THEN SkipWs(s, i + 1) ELSE i

\* the characters of a JSON string literal, read from position i, the one
\* after its opening quote, up to its closing quote
RECURSIVE ReadString(_, _, _)
ReadString(s, i, acc) ==
    IF i > Len(s) THEN SyntaxError
    ELSE IF s[i] = QUOTE THEN [ok |-> TRUE, val |-> acc, next |-> i + 1]
    ELSE IF s[i] = BSLASH
         THEN IF i + 1 > Len(s) THEN SyntaxError
              ELSE IF s[i + 1] = QUOTE THEN ReadString(s, i + 2, Append(acc, QUOTE))
              ELSE IF s[i + 1] = BSLASH THEN ReadString(s, i + 2, Append(acc, BSLASH))
              ELSE IF s[i + 1] = "n" THEN ReadString(s, i + 2, Append(acc, LF))
              ELSE IF s[i + 1] = "r" THEN ReadString(s, i + 2, Append(acc, CR))
              ELSE SyntaxError
    ELSE IF IsNewline(s[i]) THEN SyntaxError
    ELSE ReadString(s, i + 1, Append(acc, s[i]))

\* the members of a JSON object, read from position i, the start of a member
RECURSIVE ReadMembers(_, _, _)
ReadMembers(s, i, acc) ==
    IF i > Len(s) \/ s[i] # QUOTE THEN SyntaxError
    ELSE LET key == ReadString(s, i + 1, <<>>)
         IN IF ~key.ok THEN SyntaxError
            ELSE LET colon == SkipWs(s, key.next)
                 IN IF colon > Len(s) \/ s[colon] # ":" THEN SyntaxError
                    ELSE LET v == SkipWs(s, colon + 1)
                         IN IF v > Len(s) \/ s[v] # QUOTE THEN SyntaxError
                            ELSE LET val == ReadString(s, v + 1, <<>>)
                                 IN IF ~val.ok THEN SyntaxError
                                    ELSE LET after == SkipWs(s, val.next)
                                             got == Append(acc, <<key.val, val.val>>)
                                         IN IF after > Len(s) THEN SyntaxError
                                            ELSE IF s[after] = ","
                                                 THEN ReadMembers(s, SkipWs(s, after + 1), got)
                                            ELSE IF s[after] = "}"
                                                 THEN IF SkipWs(s, after + 1) > Len(s)
                                                      THEN [ok |-> TRUE, obj |-> got]
                                                      ELSE SyntaxError
                                            ELSE SyntaxError

\* JSON.parse(x) for the JSON texts the bodies of this model can hold: an
\* object whose members are strings (no other JSON value can be written
\* with the characters used). undefined is parsed as the text "undefined".
JsonParse(x) ==
    IF x = Undefined THEN SyntaxError
    ELSE LET open == SkipWs(x, 1)
         IN IF open > Len(x) \/ x[open] # "{" THEN SyntaxError
            ELSE LET first == SkipWs(x, open + 1)
                 IN IF first <= Len(x) /\ x[first] = "}"
                    THEN IF SkipWs(x, first + 1) > Len(x)
                         THEN [ok |-> TRUE, obj |-> <<>>]
                         ELSE SyntaxError
                    ELSE ReadMembers(x, first, <<>>)

\* obj[key] of a parsed object: the last member of that name, or undefined
RECURSIVE GetField(_, _)
GetField(obj, key) ==
    IF obj = <<>> THEN Undefined
    ELSE IF obj[Len(obj)][1] = key THEN obj[Len(obj)][2]
    ELSE GetField(SubSeq(obj, 1, Len(obj) - 1), key)


----------------------------------------------------------------------------
(* The decoder of sendMessage: what `return (await response.text())...`    *)
(* evaluates to                                                            *)

StringValue(s) == [kind |-> "string", value |-> s]
\* a thrown error, by its name
Thrown(e) == [kind |-> "throw", value |-> <<e>>]
\* nothing returned yet
NoResult == [kind |-> "none", value |-> <<>>]

\* .filter((dataString) => !!dataString): the non-empty strings are kept
KeepLine(dataString) == dataString # <<>>

\* dataString.split('data: ')[1]: the second part, undefined when the
\* separator does not occur
SecondPart(dataString) ==
    LET parts == SplitOn(dataString, DataPrefix)
    IN IF Len(parts) >= 2 THEN parts[2] ELSE Undefined

\* .join(''): undefined elements are joined as the empty string
RECURSIVE JoinEmpty(_)
JoinEmpty(values) ==
    IF values = <<>> THEN <<>>
    ELSE (IF Head(values) = Undefined THEN <<>> ELSE Head(values))
         \o JoinEmpty(Tail(values))

DecodeBody(text) ==
    LET kept == SelectSeq(SplitLines(text), KeepLine)
        parsed == [k \in 1..Len(kept) |-> JsonParse(SecondPart(kept[k]))]
    IN IF \E k \in 1..Len(kept) : ~parsed[k].ok
       THEN Thrown("SyntaxError")
       ELSE StringValue(Trim(JoinEmpty(
                [k \in 1..Len(kept) |-> GetField(parsed[k].obj, CompletionKey)])))


----------------------------------------------------------------------------
(* The response body of POST /append_message, as the server writes it *)

\* how many events the server writes into one response body
MaxChunks == 3

\* completion fragments: empty, with outer and inner white space, holding
\* the text "data: ", forming it only when concatenated, and holding
\* characters that JSON escapes
Fragments ==
    { <<>>,
      <<"H", "i", " ">>,
      <<" ", "x">>,
      DataPrefix,
      <<"d", "a", "t", "a", ":">>,
      <<"a", LF, QUOTE>> }

StopKey == <<"s", "t", "o", "p">>

Chunk(shape, frag, eol) == [shape |-> shape, frag |-> frag, eol |-> eol]

\* the events a body is made of: data lines (also with a further field, and
\* ended by CR LF), and the lines a body should not hold
ChunkSet ==
    { Chunk("data", f, <<LF>>) : f \in Fragments }
    \cup { Chunk("data", <<"H", "i", " ">>, <<CR, LF>>),
           Chunk("extra", <<"H", "i", " ">>, <<LF>>),
           Chunk("nofield", <<>>, <<LF>>),
           Chunk("junkprefix", <<"H", "i", " ">>, <<LF>>),
           Chunk("noprefix", <<"H", "i", " ">>, <<LF>>),
           Chunk("badjson", <<"H", "i", " ">>, <<LF>>),
           Chunk("blank", <<>>, <<LF>>),
           Chunk("white", <<>>, <<LF>>) }

CompletionJson(frag) == JsonStringify(<< <<CompletionKey, frag>> >>)

\* the line of one event, without its line terminator
RenderLine(c) ==
    CASE c.shape = "data" -> DataPrefix \o CompletionJson(c.frag)
      [] c.shape = "extra" ->
            DataPrefix \o JsonStringify(<< <<CompletionKey, c.frag>>, <<StopKey, <<"x">> >> >>)
      [] c.shape = "nofield" -> DataPrefix \o JsonStringify(<< <<StopKey, <<"x">> >> >>)
      [] c.shape = "junkprefix" -> <<"x", " ">> \o DataPrefix \o CompletionJson(c.frag)
      [] c.shape = "noprefix" -> CompletionJson(c.frag)
      [] c.shape = "badjson" -> DataPrefix \o <<"{">> \o JsonString(CompletionKey) \o <<":", QUOTE>> \o c.frag
      [] c.shape = "blank" -> <<>>
      [] c.shape = "white" -> <<" ">>

RECURSIVE RenderChunks(_)
RenderChunks(cs) ==
    IF cs = <<>> THEN <<>>
    ELSE RenderLine(Head(cs)) \o Head(cs).eol \o RenderChunks(Tail(cs))

\* the whole body; with cut, the last line has no terminator
Body(cs, cut) ==
    IF cut /\ cs # <<>>
    THEN RenderChunks(SubSeq(cs, 1, Len(cs) - 1)) \o RenderLine(cs[Len(cs)])
    ELSE RenderChunks(cs)

DInit ==
    /\ chunks = <<>>
    /\ cutTail = FALSE
    /\ bodyText = <<>>
    /\ dstage = "receiving"
    /\ returned = NoResult
    /\ round = 1
    /\ firstReturned = NoResult

\* the server writes one more event into the streamed body
ServerWrites(c) ==
    /\ dstage = "receiving"
    /\ Len(chunks) < MaxChunks
    /\ chunks' = Append(chunks, c)
    /\ UNCHANGED <<cutTail, bodyText, dstage, returned, round, firstReturned>>
    /\ UNCHANGED <<cvars, wire>>

\* await response.text() resolves with the complete body
ResponseText(cut) ==
    /\ dstage = "receiving"
    /\ cut => chunks # <<>>
    /\ cutTail' = cut
    /\ bodyText' = Body(chunks, cut)
    /\ dstage' = "received"
    /\ UNCHANGED <<chunks, returned, round, firstReturned>>
    /\ UNCHANGED <<cvars, wire>>

\* the return statement of sendMessage with returnResponse = true
ReturnResponse ==
    /\ dstage = "received"
    /\ returned' = DecodeBody(bodyText)
    /\ dstage' = "returned"
    /\ UNCHANGED <<chunks, cutTail, bodyText, round, firstReturned>>
    /\ UNCHANGED <<cvars, wire>>

\* a second response whose body is the single line
\* data: {"completion": <the string returned for the first body>}
Rewrap ==
    /\ dstage = "returned"
    /\ round = 1
    /\ returned.kind = "string"
    /\ firstReturned' = returned
    /\ bodyText' = DataPrefix \o CompletionJson(returned.value)
    /\ round' = 2
    /\ dstage' = "received"
    /\ returned' = NoResult
    /\ UNCHANGED <<chunks, cutTail>>
    /\ UNCHANGED <<cvars, wire>>

DecodeNext ==
    \/ \E c \in ChunkSet : ServerWrites(c)
    \/ \E cut \in BOOLEAN : ResponseText(cut)
    \/ ReturnResponse
    \/ Rewrap

----------------------------------------------------------------------------
(* JavaScript values passed to the operations *)

Undef == [t |-> "undefined"]
Num(n) == [t |-> "number", n |-> n, nan |-> FALSE]
NaN == [t |-> "number", n |-> 0, nan |-> TRUE]
Str(s) == [t |-> "string", s |-> s]
Bool(b) == [t |-> "boolean", b |-> b]

\* typeof v
TypeOf(v) == v.t

\* the value is truthy: !v is false
Truthy(v) ==
    CASE v.t = "undefined" -> FALSE
      [] v.t = "number" -> ~v.nan /\ v.n # 0
      [] v.t = "string" -> v.s # <<>>
      [] v.t = "boolean" -> v.b

\* !s.length || !s.trim() for a string s
BlankString(v) == v.s = <<>> \/ Trim(v.s) = <<>>

\* the value undefined where an identifier is expected; a string
\* concatenation writes it as the text "undefined"
UNDEF == "undefined"

----------------------------------------------------------------------------
(* Endpoints: the url of each ApiRequestTypes object, as its path segments *)
(* after API_BASE_URL                                                      *)

AccountUrl == <<"account">>
OrganizationsUrl == <<"organizations">>
AllChatsUrl(org) == OrganizationsUrl \o <<org, "chat_conversations">>
SingleChatUrl(org, chat) == OrganizationsUrl \o <<org, "chat_conversations", chat>>
SendMessageUrl == <<"append_message">>
GenerateChatTitleUrl == <<"generate_chat_title">>
AccountAuthUrl == <<"auth", "current_account">>
LogoutUrl == <<"auth", "logout">>

\* REQUEST_HEADERS['content-type'], the header every endpoint object is built with
ContentType == "application/json"

\* a request handed to fetch, not yet answered; conv is the conversation_uuid
\* of its body, for the endpoints that take one
Request(method, url, conv) ==
    [t |-> "req", method |-> method, url |-> url, conv |-> conv,
     ctype |-> ContentType, out |-> "pending"]

\* ApiRequestTypes.get/post/put/delete: #base(method, options)
Get(url) == Request("GET", url, UNDEF)
Delete(url) == Request("DELETE", url, UNDEF)
\* the PUT verb sending POST
PutAsPost(url) == Request("POST", url, UNDEF)
Put(url) == Request("PUT", url, UNDEF)
Post(url, conv) == Request("POST", url, conv)

\* no verb of an endpoint object has been called
Unsent == [kind |-> "idle"]

\* a console message
Console(level, msg) == [t |-> "log", level |-> level, msg |-> msg]

----------------------------------------------------------------------------
(* Bounds of the client model *)

\* calls that may be running at the same time
MaxCalls == 2
\* chats the account holds at most
MaxChats == 2
\* requests that fail for a reason of the network or the server
MaxFaults == 1

\* chats that are created while the model runs
MaxNew == 2

AllChatIds == <<"chat1", "chat2", "chat3", "chat4">>
\* the uuids window.crypto.randomUUID() returns, in the order of the calls
NewIds == <<"new1", "new2", "new3", "new4">>
\* the operations that create a chat
CreatingOps == {"createEmptyChat", "startNewChat"}
ChatIds == {AllChatIds[k] : k \in 1..MaxChats}
Orgs == {"org1", "org2"}
Libs == {"index.js", "legacy"}

----------------------------------------------------------------------------
(* Validation of the arguments, after the chat list has been fetched *)

\* the outcome of the checks: the console messages written, whether the
\* operation returns there, and the error thrown (legacy file), if any
Checked(logs, stop, throws) == [logs |-> logs, stop |-> stop, throws |-> throws]
Passed == Checked(<<>>, FALSE, UNDEF)
Fails(level, msg) == Checked(<<Console(level, msg)>>, TRUE, UNDEF)
Throws(msg) == Checked(<<>>, TRUE, msg)

\* chatIndex < 0 || chatIndex >= chats.length (false for NaN)
OutOfBounds(chatIndex, chats) ==
    ~chatIndex.nan /\ (chatIndex.n < 0 \/ chatIndex.n >= Len(chats))

\* IndexCheck with the bounds checked before the empty list
IndexCheckBoundsFirst(chatIndex, chats) ==
    IF TypeOf(chatIndex) # "number" /\ ~Truthy(chatIndex)
        THEN Fails("error", "Chat index must be specified")
    ELSE IF TypeOf(chatIndex) # "number"
        THEN Fails("error", "Chat index must be a number")
    ELSE IF OutOfBounds(chatIndex, chats)
        THEN Fails("error", "Chat index is out of bounds")
    ELSE IF Len(chats) = 0
        THEN Fails("warn", "No chats found")
    ELSE Passed

\* the four checks every index-taking operation of index.js starts with
IndexCheck(chatIndex, chats) ==
    IF TypeOf(chatIndex) # "number" /\ ~Truthy(chatIndex)
        THEN Fails("error", "Chat index must be specified")
    ELSE IF TypeOf(chatIndex) # "number"
        THEN Fails("error", "Chat index must be a number")
    ELSE IF Len(chats) = 0
        THEN Fails("warn", "No chats found")
    ELSE IF OutOfBounds(chatIndex, chats)
        THEN Fails("error", "Chat index is out of bounds")
    ELSE Passed

\* the same checks in the legacy file, which throws
LegacyIndexCheck(chatIndex, chats) ==
    IF TypeOf(chatIndex) # "number"
        THEN Throws("Chat index must be a number")
    ELSE IF Len(chats) = 0
        THEN Fails("warn", "No chats found")
    ELSE IF OutOfBounds(chatIndex, chats)
        THEN Throws("Chat index is out of bounds")
    ELSE Passed

AttachmentFields == {"extracted_content", "file_name", "file_size", "file_type"}

\* an attachment is modelled by the set of the keys it defines
ValidAttachment(keys) == AttachmentFields \subseteq keys /\ Cardinality(keys) = 4

\* sendMessage of index.js, after the index checks
MessageCheck(message, attachments, returnResponse) ==
    IF ~Truthy(message) /\ Len(attachments) = 0
        THEN Fails("error", "Either message or attachments must be included")
    ELSE IF Truthy(message) /\ TypeOf(message) # "string"
        THEN Fails("error", "Message must be a string")
    ELSE IF Truthy(message) /\ BlankString(message)
        THEN Fails("error", "Message must not be empty")
    ELSE LET invalid == IF \A k \in 1..Len(attachments) : ValidAttachment(attachments[k])
                        THEN <<>>
                        ELSE <<Console("error", "Invalid attachments")>>
         IN IF TypeOf(returnResponse) # "boolean"
            THEN Checked(invalid \o <<Console("error", "returnResponse must be a boolean value")>>,
                         TRUE, UNDEF)
            ELSE Checked(invalid, FALSE, UNDEF)

\* sendMessage of the legacy file, after the index checks; a number has no
\* length, so !message.length holds of it
LegacyMessageCheck(message) ==
    IF ~Truthy(message) THEN Throws("Message must be included")
    ELSE IF TypeOf(message) # "string" \/ BlankString(message)
        THEN Throws("Message must not be empty")
    ELSE Passed

\* HintCheck with the `return` of its last check left out
HintCheckNoReturn(messageHint) ==
    IF ~Truthy(messageHint) THEN Fails("error", "Message hint is required")
    ELSE IF TypeOf(messageHint) # "string"
        THEN Fails("error", "Message hint must be a string")
    ELSE IF BlankString(messageHint)
        THEN Checked(<<Console("error", "Message hint must not be empty")>>, FALSE, UNDEF)
    ELSE Passed

\* generateChatTitle, after the index checks
HintCheck(messageHint) ==
    IF ~Truthy(messageHint) THEN Fails("error", "Message hint is required")
    ELSE IF TypeOf(messageHint) # "string"
        THEN Fails("error", "Message hint must be a string")
    ELSE IF BlankString(messageHint)
        THEN Fails("error", "Message hint must not be empty")
    ELSE Passed

IndexOps ==
    {"getChatDetails", "deleteChat", "sendMessage", "generateChatTitle", "renameChatTitle"}

\* all the checks of an operation between the list fetch and its own request
Validate(l, inv, chats) ==
    IF inv.op = "deleteAllChats"
    THEN IF Len(chats) = 0 THEN Fails("warn", "No chats found") ELSE Passed
    ELSE LET index == IF l = "legacy" THEN LegacyIndexCheck(inv.chatIndex, chats)
                      ELSE IndexCheck(inv.chatIndex, chats)
         IN IF index.stop THEN index
            ELSE IF inv.op = "sendMessage"
                 THEN IF l = "legacy" THEN LegacyMessageCheck(inv.text)
                      ELSE MessageCheck(inv.text, inv.attachments, inv.returnResponse)
            ELSE IF inv.op = "generateChatTitle" THEN HintCheck(inv.text)
            ELSE Passed

----------------------------------------------------------------------------
(* Calls: each call of an operation runs from one await to the next *)

Pending == [kind |-> "pending", value |-> <<>>]
Returned(v) == [kind |-> "return", value |-> v]

\* a free slot of the table of calls
Idle == [pc |-> "idle"]

Invocation(op, chatIndex, text, attachments, returnResponse) ==
    [op |-> op, chatIndex |-> chatIndex, text |-> text,
     attachments |-> attachments, returnResponse |-> returnResponse, title |-> Undef]

NoAttachments == <<>>
Hello == Str(<<"h", "i">>)

IndexCall(op, chatIndex) ==
    Invocation(op, chatIndex, Hello, NoAttachments, Bool(FALSE))
PlainCall(op) == IndexCall(op, Undef)

\* startNewChat(message, title)
StartNewChatCall(message, title) ==
    [Invocation("startNewChat", Undef, message, NoAttachments, Bool(FALSE))
        EXCEPT !.title = title]

\* the operation that awaits the function now running, when that operation
\* is startNewChat: where it waits, and its locals chatData and chatIndex
NoFrame ==
    [stage |-> "none", inv |-> PlainCall("none"), chatData |-> Undefined,
     chatIndex |-> Undef]

Running(inv, pc, trace) ==
    [inv |-> inv, pc |-> pc, chats |-> <<>>, trace |-> trace, result |-> Pending,
     frame |-> NoFrame, uuid |-> UNDEF]

\* the function returned or threw, and no operation awaits it
Finish(call, logs, result) ==
    [call EXCEPT !.pc = "done", !.trace = call.trace \o logs, !.result = result]

IsPendingRequest(e) == e.t = "req" /\ e.out = "pending"

PendingRequests(call) ==
    IF call.pc = "idle" THEN {}
    ELSE {k \in 1..Len(call.trace) : IsPendingRequest(call.trace[k])}

Answered(call, k, out) == [call EXCEPT !.trace[k].out = out]

\* getUserDetails without its test of the cache
CacheOrgAlways(cached, fetched) == fetched

\* getUserDetails: if (!claudejs.orgUUID) claudejs.orgUUID = <the fetched uuid>
CacheOrg(cached, fetched) == IF cached = UNDEF THEN fetched ELSE cached

\* getAllChatsDetails from its start: the account is looked up first when
\* the cache is empty
BeginList(inv, org) ==
    IF org = UNDEF
    THEN Running(inv, "list_acct", <<Get(AccountUrl)>>)
    ELSE Running(inv, "list_chats", <<Get(AllChatsUrl(org))>>)

\* the checks startNewChat makes of its arguments, before any request
StartCheck(message, title) ==
    IF ~Truthy(message) THEN Fails("error", "Message must be included")
    ELSE IF TypeOf(message) # "string" THEN Fails("error", "Message must be a string")
    ELSE IF BlankString(message) THEN Fails("error", "Message must not be empty")
    ELSE IF Truthy(title) /\ TypeOf(title) # "string"
        THEN Fails("error", "Title must be a string")
    ELSE Passed

\* what createEmptyChat resolves to: the chat the server created, or the
\* error object of a 4xx/5xx response
ChatData(uuid) == <<"chat", uuid>>
ErrorObject == <<"error object">>

\* chatData.uuid
UuidOf(data) == IF Len(data) = 2 THEN data[2] ELSE UNDEF

\* chats.findIndex((chat) => chat.uuid === uuid), zero-based; -1 when absent
FindIndex(chats, uuid) ==
    LET at == {k \in 1..Len(chats) : chats[k] = uuid}
    IN IF at = {} THEN -1 ELSE (CHOOSE k \in at : \A j \in at : k <= j) - 1

\* startNewChat awaits a function it calls: the function runs from its
\* start, in the same call
SubCall(call, frame, sub) ==
    [sub EXCEPT !.trace = call.trace \o sub.trace, !.frame = frame, !.uuid = call.uuid]

\* startNewChat from the point where the function it awaited has settled;
\* org is claudejs.orgUUID as the code that continues reads it
Resume(done, org) ==
    LET f == done.frame
        message == f.inv.text
        back == [done EXCEPT !.inv = f.inv, !.frame.stage = "finished"]
        Await(stage, data, index, inv) ==
            SubCall(done,
                    [f EXCEPT !.stage = stage, !.chatData = data, !.chatIndex = index],
                    BeginList(inv, org))
        Send(data, index) ==
            Await("send", data, index,
                  Invocation("sendMessage", index, message, NoAttachments, Bool(FALSE)))
    IN IF done.result.kind = "throw" THEN back
       ELSE CASE f.stage = "create" ->
                    Await("list", done.result.value, f.chatIndex,
                          PlainCall("getAllChatsDetails"))
              [] f.stage = "list" ->
                    LET chats == done.result.value
                    IN IF f.chatData = Undefined /\ chats # <<>>
                       THEN [back EXCEPT !.result = Thrown("TypeError")]
                       ELSE LET index == Num(FindIndex(chats, UuidOf(f.chatData)))
                            IN IF ~Truthy(f.inv.title)
                               THEN Await("title", f.chatData, index,
                                          Invocation("generateChatTitle", index, message,
                                                     NoAttachments, Bool(FALSE)))
                               ELSE Send(f.chatData, index)
              [] f.stage = "title" -> Send(f.chatData, f.chatIndex)
              [] f.stage = "send" ->
                    [back EXCEPT
                        !.trace = done.trace \o <<Console("log", "Chat started successfully")>>,
                        !.result = Returned(f.chatData)]

\* the function returned or threw: the call has settled, or the operation
\* that awaited the function goes on
Settle(call, logs, result, org) ==
    LET done == Finish(call, logs, result)
    IN IF call.frame.stage \in {"none", "finished"} THEN done ELSE Resume(done, org)

\* createEmptyChat from its start (createChat in the legacy file, which throws)
BeginCreate(l, call, org) ==
    IF ~crypto
    THEN IF l = "legacy"
         THEN Settle(call, <<>>, Thrown("Cannot get UUID, aborting..."), org)
         ELSE Settle(call, <<Console("error", "Cannot get UUID, aborting...")>>,
                     Returned(Undefined), org)
    ELSE IF org = UNDEF
    THEN [call EXCEPT !.pc = "create_acct", !.trace = call.trace \o <<Get(AccountUrl)>>]
    ELSE [call EXCEPT !.pc = "create",
                      !.trace = call.trace \o <<Post(AllChatsUrl(org), UNDEF)>>]

\* startNewChat at `await claudejs.createEmptyChat(title)`
StartCreate(l, call, org) ==
    LET start == call.inv
        create == [PlainCall("createEmptyChat") EXCEPT !.title = start.title]
    IN BeginCreate(l,
                   [call EXCEPT !.inv = create,
                                !.frame = [NoFrame EXCEPT !.stage = "create", !.inv = start]],
                   org)

\* startNewChat from its start
StartNewChat(l, inv, org) ==
    LET v == StartCheck(inv.text, inv.title)
        call == Running(inv, "start_acct", <<>>)
    IN IF v.stop THEN Finish(call, v.logs, Returned(Undefined))
       ELSE IF org = UNDEF
       THEN [call EXCEPT !.trace = <<Get(AccountUrl)>>,
                         !.frame = [NoFrame EXCEPT !.stage = "acct", !.inv = inv]]
       ELSE StartCreate(l, call, org)

\* OwnRequests with deleteAllChats deleting the first chat only
OwnRequestsFirstOnly(inv, chats, org) ==
    LET chatUUID == chats[inv.chatIndex.n + 1]
    IN CASE inv.op = "getChatDetails" -> <<Get(SingleChatUrl(org, chatUUID))>>
         [] inv.op = "deleteChat" -> <<Delete(SingleChatUrl(org, chatUUID))>>
         [] inv.op = "renameChatTitle" -> <<Put(SingleChatUrl(org, chatUUID))>>
         [] inv.op = "sendMessage" -> <<Post(SendMessageUrl, chatUUID)>>
         [] inv.op = "generateChatTitle" -> <<Post(GenerateChatTitleUrl, chatUUID)>>
         [] inv.op = "deleteAllChats" -> <<Delete(SingleChatUrl(org, chats[1]))>>

\* OwnRequests with the index ignored: always the first chat of the list
OwnRequestsFirstChat(inv, chats, org) ==
    LET chatUUID == chats[1]
    IN CASE inv.op = "getChatDetails" -> <<Get(SingleChatUrl(org, chatUUID))>>
         [] inv.op = "deleteChat" -> <<Delete(SingleChatUrl(org, chatUUID))>>
         [] inv.op = "renameChatTitle" -> <<Put(SingleChatUrl(org, chatUUID))>>
         [] inv.op = "sendMessage" -> <<Post(SendMessageUrl, chatUUID)>>
         [] inv.op = "generateChatTitle" -> <<Post(GenerateChatTitleUrl, chatUUID)>>
         [] inv.op = "deleteAllChats" ->
               [k \in 1..Len(chats) |-> Delete(SingleChatUrl(org, chats[k]))]

\* the request, or requests, an operation sends once its checks passed
OwnRequests(inv, chats, org) ==
    LET chatUUID == chats[inv.chatIndex.n + 1]
    IN CASE inv.op = "getChatDetails" -> <<Get(SingleChatUrl(org, chatUUID))>>
         [] inv.op = "deleteChat" -> <<Delete(SingleChatUrl(org, chatUUID))>>
         [] inv.op = "renameChatTitle" -> <<Put(SingleChatUrl(org, chatUUID))>>
         [] inv.op = "sendMessage" -> <<Post(SendMessageUrl, chatUUID)>>
         [] inv.op = "generateChatTitle" -> <<Post(GenerateChatTitleUrl, chatUUID)>>
         [] inv.op = "deleteAllChats" ->
               [k \in 1..Len(chats) |-> Delete(SingleChatUrl(org, chats[k]))]

\* const chatUUID = chats[chatIndex].uuid and the request that follows;
\* chats[NaN] is undefined, and reading its uuid throws
IssueOwn(call, org) ==
    IF call.inv.op \in IndexOps /\ call.inv.chatIndex.nan
    THEN Settle(call, <<>>, Thrown("TypeError"), org)
    ELSE [call EXCEPT !.pc = IF call.inv.op = "deleteAllChats" THEN "batch" ELSE "own",
                      !.trace = call.trace \o OwnRequests(call.inv, call.chats, org)]

\* an operation from the point where its chat list has arrived
AfterList(l, call, chats, org) ==
    LET v == Validate(l, call.inv, chats)
        seen == [call EXCEPT !.chats = chats]
    IN IF call.inv.op = "getAllChatsDetails"
       THEN Settle(seen, <<>>, Returned(chats), org)
       ELSE IF v.stop
       THEN Settle(seen, v.logs,
                   IF v.throws # UNDEF THEN Thrown(v.throws) ELSE Returned(Undefined), org)
       ELSE LET checked == [seen EXCEPT !.trace = seen.trace \o v.logs]
            IN IF org = UNDEF
               THEN [checked EXCEPT !.pc = "own_acct",
                                    !.trace = checked.trace \o <<Get(AccountUrl)>>]
               ELSE IssueOwn(checked, org)

\* what the server answers when nothing fails on the way: a chat that is
\* not in the list is not found
Natural(req) ==
    IF Len(req.url) = 4 /\ req.url[4] \notin {serverChats[k] : k \in 1..Len(serverChats)}
        THEN "http_error"
    ELSE IF req.conv # UNDEF /\ req.conv \notin {serverChats[k] : k \in 1..Len(serverChats)}
        THEN "http_error"
    ELSE "ok"

\* ok: a 2xx response; http_error: fetch resolves with a 4xx/5xx response
\* whose body is a JSON error object; net_error: fetch rejects
Outcomes == {"ok", "http_error", "net_error"}

Allowed(req, out) == out = Natural(req) \/ faults < MaxFaults
Count(req, out) == IF out = Natural(req) THEN faults ELSE faults + 1

\* the server's list without one chat
Without(list, chat) == SelectSeq(list, LAMBDA x : x # chat)

\* the body of a 2xx response to POST /append_message, and of an error
OkBody == Body(<<Chunk("data", <<"H", "i", " ">>, <<LF>>)>>, FALSE)
ErrorBody == JsonStringify(<< << <<"e", "r", "r", "o", "r">>, <<"x">> >> >>)
\* what the chain of lines 237-243 makes of the two bodies
DecodedOk == DecodeBody(OkBody)
DecodedError == DecodeBody(ErrorBody)

\* sendMessage decoding the body whatever returnResponse says
OwnResultAlwaysDecoded(inv, out) ==
    IF out = "net_error" THEN Thrown("Failed to fetch")
    ELSE IF inv.op = "sendMessage"
         THEN LET d == IF out = "ok" THEN DecodedOk ELSE DecodedError
              IN IF d.kind = "string" THEN Returned(d.value) ELSE d
         ELSE Returned(Undefined)

\* what the operation returns or throws when its own request is answered
OwnResult(inv, out) ==
    IF out = "net_error" THEN Thrown("Failed to fetch")
    ELSE CASE inv.op = "getChatDetails" ->
                 Returned(IF out = "ok" THEN <<"chat details">> ELSE <<"error object">>)
           [] inv.op = "generateChatTitle" ->
                 Returned(IF out = "ok" THEN <<"title">> ELSE Undefined)
           [] inv.op = "sendMessage" ->
                 IF Truthy(inv.returnResponse)
                 THEN LET d == IF out = "ok" THEN DecodedOk ELSE DecodedError
                      IN IF d.kind = "string" THEN Returned(d.value) ELSE d
                 ELSE Returned(Undefined)
           [] OTHER -> Returned(Undefined)

\* `await response.text()`: the body of the response is read
BodyRead == [t |-> "read"]

\* what the operation writes, and reads, once its own request is answered
OwnLogs(inv, out) ==
    IF out = "net_error" THEN <<>>
    ELSE CASE inv.op = "deleteChat" -> <<Console("log", "Chat deleted")>>
           [] inv.op = "sendMessage" ->
                 IF Truthy(inv.returnResponse) THEN <<BodyRead>> ELSE <<>>
           [] inv.op = "updateAccountInfo" ->
                 IF out = "ok"
                 THEN <<Console("log", "Successfully updated user information")>>
                 ELSE <<Console("error", "Couldn't update user information")>>
           [] inv.op = "logout" ->
                 IF out = "ok"
                 THEN <<Console("log", "Successfully logged out")>>
                 ELSE <<Console("error", "Could not log out")>>
           [] OTHER -> <<>>

----------------------------------------------------------------------------
(* The operations the callers may start *)

\* calls that run concurrently: every operation, with an index that is a
\* whole number in or just out of the range of the list
Invocations ==
    { IndexCall(op, Num(i)) : op \in IndexOps, i \in 0..MaxChats }
    \cup { PlainCall("deleteAllChats"), PlainCall("getUserDetails") }

----------------------------------------------------------------------------
(* Actions of the client, the network and the server *)

CInit ==
    /\ lib = "index.js"
    /\ orgUUID = UNDEF
    /\ calls = [c \in 1..MaxCalls |-> Idle]
    /\ serverOrg = "org1"
    /\ serverChats \in {SubSeq(AllChatIds, 1, n) : n \in 0..MaxChats}
    /\ faults = 0
    /\ crypto = TRUE
    /\ minted = 0
    /\ wire = Unsent

FreeSlot(c) == calls[c].pc = "idle" /\ \A d \in 1..(c - 1) : calls[d].pc # "idle"

\* a caller calls an operation; it runs up to its first await. The uuid
\* that window.crypto.randomUUID() returns in the call is drawn here
StartCall(c, inv) ==
    /\ FreeSlot(c)
    /\ inv.op \in CreatingOps => minted < MaxNew
    /\ minted' = IF inv.op \in CreatingOps THEN minted + 1 ELSE minted
    /\ LET uuid == IF inv.op \in CreatingOps THEN NewIds[minted + 1] ELSE UNDEF
           call ==
             CASE inv.op = "getUserDetails" -> Running(inv, "user", <<Get(AccountUrl)>>)
               [] inv.op = "updateAccountInfo" ->
                     Running(inv, "upd_acct", <<Get(AccountUrl)>>)
               [] inv.op = "logout" -> Running(inv, "own", <<Post(LogoutUrl, UNDEF)>>)
               [] inv.op = "createEmptyChat" ->
                     BeginCreate(lib, [Running(inv, "create", <<>>) EXCEPT !.uuid = uuid],
                                 orgUUID)
               [] inv.op = "startNewChat" -> StartNewChat(lib, inv, orgUUID)
               [] OTHER -> BeginList(inv, orgUUID)
       IN calls' = [calls EXCEPT ![c] = [call EXCEPT !.uuid = uuid]]
    /\ UNCHANGED <<dvars, wire, lib, crypto, orgUUID, serverOrg, serverChats, faults>>

\* GET /account is answered: getUserDetails resumes, then its caller. The
\* error object of a 4xx/5xx response has no memberships: reading them
\* throws, unless the cache is filled and they are not read
AccountResponds(c, out) ==
    /\ calls[c].pc \in {"user", "list_acct", "own_acct", "start_acct", "create_acct", "upd_acct"}
    /\ LET call == calls[c]
           k == Len(call.trace)
           req == call.trace[k]
           got == Answered(call, k, out)
           org == IF out = "ok" THEN CacheOrg(orgUUID, serverOrg) ELSE orgUUID
       IN /\ Allowed(req, out)
          /\ faults' = Count(req, out)
          /\ IF out = "net_error"
             THEN /\ calls' = [calls EXCEPT ![c] =
                        Settle(got, <<>>, Thrown("Failed to fetch"), orgUUID)]
                  /\ UNCHANGED orgUUID
             ELSE IF out = "http_error" /\ orgUUID = UNDEF
             THEN /\ calls' = [calls EXCEPT ![c] =
                        Settle(got, <<>>, Thrown("TypeError"), orgUUID)]
                  /\ UNCHANGED orgUUID
             ELSE /\ orgUUID' = org
                  /\ calls' = [calls EXCEPT ![c] =
                        CASE call.pc = "user" ->
                                Settle(got, <<>>,
                                       Returned(IF out = "ok" THEN <<"user data">>
                                                ELSE ErrorObject), org)
                          [] call.pc = "list_acct" ->
                                [got EXCEPT !.pc = "list_chats",
                                            !.trace = got.trace \o <<Get(AllChatsUrl(org))>>]
                          [] call.pc = "own_acct" -> IssueOwn(got, org)
                          [] call.pc = "start_acct" -> StartCreate(lib, got, org)
                          [] call.pc = "create_acct" ->
                                [got EXCEPT !.pc = "create",
                                            !.trace = got.trace
                                                      \o <<Post(AllChatsUrl(org), UNDEF)>>]
                          [] call.pc = "upd_acct" ->
                                [got EXCEPT !.pc = "own",
                                            !.trace = got.trace \o <<Put(AccountAuthUrl)>>]]
    /\ UNCHANGED <<dvars, wire, lib, crypto, minted, serverOrg, serverChats>>

\* POST chat_conversations is answered: the server has created the chat,
\* at the head or at the tail of its list, and createEmptyChat returns
CreateResponds(c, out, front) ==
    /\ calls[c].pc = "create"
    /\ LET call == calls[c]
           k == Len(call.trace)
           req == call.trace[k]
           got == Answered(call, k, out)
       IN /\ Allowed(req, out)
          /\ faults' = Count(req, out)
          /\ calls' = [calls EXCEPT ![c] =
                IF out = "net_error"
                THEN Settle(got, <<>>, Thrown("Failed to fetch"), orgUUID)
                ELSE Settle(got, <<Console("log", "Chat created successfully with UUID")>>,
                            Returned(IF out = "ok" THEN ChatData(call.uuid) ELSE ErrorObject),
                            orgUUID)]
          /\ serverChats' = IF out # "ok" THEN serverChats
                            ELSE IF front THEN <<call.uuid>> \o serverChats
                            ELSE Append(serverChats, call.uuid)
    /\ UNCHANGED <<dvars, wire, lib, crypto, minted, orgUUID, serverOrg>>

\* GET chat_conversations is answered: getAllChatsDetails returns, and the
\* operation checks its arguments and sends its own request
ChatsRespond(c, out) ==
    /\ calls[c].pc = "list_chats"
    /\ LET call == calls[c]
           k == Len(call.trace)
           req == call.trace[k]
           got == Answered(call, k, out)
       IN /\ Allowed(req, out)
          /\ faults' = Count(req, out)
          /\ calls' = [calls EXCEPT ![c] =
                IF out = "net_error"
                THEN Settle(got, <<>>, Thrown("Failed to fetch"), orgUUID)
                ELSE AfterList(lib, got, IF out = "ok" THEN serverChats ELSE <<>>, orgUUID)]
    /\ UNCHANGED <<dvars, wire, lib, crypto, minted, orgUUID, serverOrg, serverChats>>

\* the request of an operation on one chat is answered
OwnResponds(c, out) ==
    /\ calls[c].pc = "own"
    /\ LET call == calls[c]
           k == Len(call.trace)
           req == call.trace[k]
           got == Answered(call, k, out)
       IN /\ Allowed(req, out)
          /\ faults' = Count(req, out)
          /\ calls' = [calls EXCEPT ![c] =
                Settle(got, OwnLogs(call.inv, out), OwnResult(call.inv, out), orgUUID)]
          /\ serverChats' = IF req.method = "DELETE" /\ out = "ok"
                            THEN Without(serverChats, req.url[4]) ELSE serverChats
    /\ UNCHANGED <<dvars, wire, lib, crypto, minted, orgUUID, serverOrg>>

\* await Promise.all(...) of deleteAllChats, when request k is answered: it
\* rejects with the first rejection, and resolves once all have resolved
AllSettled(call, out) ==
    IF call.pc # "batch" THEN call
    ELSE IF out = "net_error" THEN Settle(call, <<>>, Thrown("Failed to fetch"), orgUUID)
    ELSE IF PendingRequests(call) = {}
         THEN Settle(call, <<Console("log", "Deleted all chats")>>, Returned(Undefined),
                     orgUUID)
    ELSE call

\* one of the DELETE requests of deleteAllChats is answered
BatchResponds(c, k, out) ==
    /\ calls[c].pc \in {"batch", "done"}
    /\ calls[c].inv.op = "deleteAllChats"
    /\ k \in PendingRequests(calls[c])
    /\ LET call == calls[c]
           req == call.trace[k]
       IN /\ Allowed(req, out)
          /\ faults' = Count(req, out)
          /\ calls' = [calls EXCEPT ![c] = AllSettled(Answered(call, k, out), out)]
          /\ serverChats' = IF out = "ok" THEN Without(serverChats, req.url[4])
                            ELSE serverChats
    /\ UNCHANGED <<dvars, wire, lib, crypto, minted, orgUUID, serverOrg>>

\* the caller drops a settled call none of whose requests is in flight
Retire(c) ==
    /\ calls[c].pc = "done"
    /\ PendingRequests(calls[c]) = {}
    /\ calls' = [calls EXCEPT ![c] = Idle]
    /\ UNCHANGED <<dvars, wire, lib, crypto, minted, orgUUID, serverOrg, serverChats, faults>>

\* the account's first membership becomes another organization
MembershipChanges ==
    /\ serverOrg = "org1"
    /\ serverOrg' = "org2"
    /\ UNCHANGED <<dvars, wire, lib, crypto, minted, orgUUID, calls, serverChats, faults>>

Responds ==
    \E c \in 1..MaxCalls, out \in Outcomes :
        \/ AccountResponds(c, out)
        \/ ChatsRespond(c, out)
        \/ OwnResponds(c, out)
        \/ \E k \in 1..(MaxChats + MaxNew + 2) : BatchResponds(c, k, out)

Creates ==
    \E c \in 1..MaxCalls, out \in Outcomes, front \in BOOLEAN : CreateResponds(c, out, front)

\* callers start up to MaxCalls calls, which run concurrently
Next ==
    \/ \E c \in 1..MaxCalls, inv \in Invocations : StartCall(c, inv)
    \/ Responds
    \/ MembershipChanges

Init == DInit /\ CInit

Spec == Init /\ [][Next]_vars

----------------------------------------------------------------------------
(* One call at a time, with every kind of argument, on either library file *)

IndexValues == {Undef, Str(<<"1">>), NaN} \cup {Num(i) : i \in (-1)..MaxChats}
Messages == {Str(<<>>), Str(<<" ", " ">>), Hello, Num(42)}
Hints == Messages \cup {Undef}
AttachmentLists ==
    {NoAttachments, <<AttachmentFields>>, <<{"file_name"}>>,
     <<AttachmentFields \cup {"note"}>>}
ReturnResponses == {Bool(TRUE), Bool(FALSE), Str(<<"y">>)}

\* the legacy file names getChatDetails getChatMessagesDetails and
\* renameChatTitle renameChat, and has no generateChatTitle
ArgInvocations(l) ==
    { IndexCall(op, i) : op \in {"getChatDetails", "deleteChat", "renameChatTitle"},
                         i \in IndexValues }
    \cup { Invocation("sendMessage", i, m, a, r) :
              i \in IndexValues, m \in Messages,
              a \in IF l = "legacy" THEN {NoAttachments} ELSE AttachmentLists,
              r \in IF l = "legacy" THEN {Bool(FALSE)} ELSE ReturnResponses }
    \cup { Invocation("generateChatTitle", i, h, NoAttachments, Bool(FALSE)) :
              i \in IF l = "legacy" THEN {} ELSE IndexValues, h \in Hints }
    \cup { PlainCall("deleteAllChats"), PlainCall("getUserDetails"),
           PlainCall("getAllChatsDetails"), PlainCall("createEmptyChat") }
    \cup (IF l = "legacy" THEN {}
          ELSE {PlainCall("updateAccountInfo"), PlainCall("logout")})

InitArgs ==
    /\ DInit
    /\ lib \in Libs
    /\ orgUUID = UNDEF
    /\ calls = [c \in 1..MaxCalls |-> Idle]
    /\ serverOrg = "org1"
    /\ serverChats \in {SubSeq(AllChatIds, 1, n) : n \in 0..MaxChats}
    /\ faults = 0
    /\ crypto = TRUE
    /\ minted = 0
    /\ wire = Unsent

AllIdle == \A c \in 1..MaxCalls : calls[c].pc = "idle"

\* a caller calls an operation while no other call is running; the caller
\* creates one chat at most
StartAlone(inv) ==
    /\ AllIdle
    /\ inv.op \in CreatingOps => minted = 0
    /\ StartCall(1, inv)

NextArgs ==
    \/ AllIdle /\ \E inv \in ArgInvocations(lib) : StartAlone(inv)
    \/ Responds
    \/ Creates
    \/ \E c \in 1..MaxCalls : Retire(c)

SpecArgs == InitArgs /\ [][NextArgs]_vars

\* the same calls when every request is answered in the end: fetch settles
\* each promise, with a response or with a rejection
SpecLive == InitArgs /\ [][NextArgs]_vars /\ WF_vars(Responds \/ Creates)

----------------------------------------------------------------------------
(* startNewChat, alone or beside another call that creates or deletes a    *)
(* chat, in a page with or without window.crypto                           *)

StartInvocations ==
    { StartNewChatCall(Hello, title) : title \in {Str(<<>>), Str(<<"t">>), Num(7)} }
    \cup { StartNewChatCall(message, Str(<<>>)) :
              message \in {Undef, Num(42), Str(<<" ">>)} }
    \cup { IndexCall("deleteChat", Num(0)), PlainCall("createEmptyChat") }

InitStart ==
    /\ DInit
    /\ lib = "index.js"
    /\ orgUUID = UNDEF
    /\ calls = [c \in 1..MaxCalls |-> Idle]
    /\ serverOrg = "org1"
    /\ serverChats \in {SubSeq(AllChatIds, 1, n) : n \in 0..MaxChats}
    /\ faults = 0
    /\ crypto \in BOOLEAN
    /\ minted = 0
    /\ wire = Unsent

NextStart ==
    \/ \E c \in 1..MaxCalls, inv \in StartInvocations : StartCall(c, inv)
    \/ \E c \in 1..MaxCalls, out \in Outcomes :
          \/ AccountResponds(c, out)
          \/ ChatsRespond(c, out)
          \/ OwnResponds(c, out)
    \/ Creates

SpecStart == InitStart /\ [][NextStart]_vars

\* the decoder alone: no operation of the client runs
InitDecode == Init /\ serverChats = <<>>

SpecDecode == InitDecode /\ [][DecodeNext]_vars

----------------------------------------------------------------------------
(* The verbs of an endpoint object: ApiRequestTypes and RequestTypes *)

\* an object, as the function from its own keys to their values
Obj(f) == [t |-> "object", o |-> f]
EmptyObject == Obj(<<>>)

\* REQUEST_HEADERS, of which the model keeps the content type
RequestHeaders == [ctype |-> ContentType]
\* headers given by a caller in the options
OtherHeaders == [ctype |-> "text/plain"]

\* new ApiRequestTypes(url, headers); the legacy constructor takes the url
\* only
EndpointObject(l, url) ==
    IF l = "legacy" THEN [url |-> url]
    ELSE [url |-> url, headers |-> RequestHeaders]

\* the method each verb hands to #base
VerbMethod(verb) ==
    CASE verb = "get" -> <<"G", "E", "T">>
      [] verb = "post" -> <<"P", "O", "S", "T">>
      [] verb = "put" -> <<"P", "U", "T">>
      [] verb = "delete" -> <<"D", "E", "L", "E", "T", "E">>

\* the conversion of fetch's init.method to a string: a string is itself,
\* the number 0 is "0", a boolean is its name
ToByteString(v) ==
    CASE v.t = "string" -> v.s
      [] v.t = "number" ->
            IF v.nan THEN <<"N", "a", "N">>
            ELSE <<(<<"0", "1", "2", "3", "4", "5", "6", "7", "8", "9">>)[v.n + 1]>>
      [] v.t = "boolean" ->
            IF v.b THEN <<"t", "r", "u", "e">> ELSE <<"f", "a", "l", "s", "e">>

\* a member of fetch's init that is absent or undefined is not given
Given(init, key) == key \in DOMAIN init /\ init[key] # Undef

\* delete o[key]
DeleteKey(o, key) == [k \in (DOMAIN o) \ {key} |-> o[k]]

\* {...first, ...o}: the own keys of o, undefined values included, replace
\* those of first
Spread(first, o) ==
    [k \in (DOMAIN first) \cup (DOMAIN o) |-> IF k \in DOMAIN o THEN o[k] ELSE first[k]]

\* what a call of a verb comes to
Sent(endpoint, options, request) ==
    [kind |-> "sent", endpoint |-> endpoint, options |-> options, request |-> request]
NotSent(kind, endpoint, options) ==
    [kind |-> kind, endpoint |-> endpoint, options |-> options]

\* fetch(url, init): the method is init.method converted to a string, GET
\* when it is not given; fetch throws a TypeError when the method is not a
\* token, and when a GET request is given a body
Fetch(endpoint, options, init) ==
    LET method == IF Given(init, "method") THEN ToByteString(init["method"])
                  ELSE VerbMethod("get")
    IN IF method = <<>> \/ (Given(init, "body") /\ method = VerbMethod("get"))
       THEN NotSent("TypeError", endpoint, options)
       ELSE Sent(endpoint, options,
                 [method |-> method, url |-> endpoint.url, headers |-> init["headers"]])

\* #base(method, options = {}): the endpoint object is frozen and is left
\* as it was; a string or a number given as options has no own key that
\* fetch reads
Base(l, endpoint, method, options) ==
    LET opts == IF options = Undef THEN EmptyObject ELSE options
        own == IF TypeOf(opts) = "object" THEN opts.o ELSE <<>>
        kept == IF "method" \in DOMAIN own /\ Truthy(own["method"])
                THEN DeleteKey(own, "method") ELSE own
        headers == IF l = "legacy" THEN RequestHeaders ELSE endpoint.headers
        after == IF TypeOf(opts) = "object" THEN Obj(kept) ELSE opts
    IN IF l # "legacy" /\ TypeOf(opts) # "object"
       THEN NotSent("console.error", endpoint, opts)
       ELSE Fetch(endpoint, after,
                  Spread([method |-> Str(method), headers |-> headers], kept))

\* get(options), post(options), put(options), delete(options)
Verb(l, endpoint, verb, options) == Base(l, endpoint, VerbMethod(verb), options)

\* the values a caller gives as the method of its options
MethodValues ==
    {Undef, Num(0), Num(1), Bool(FALSE), Str(<<>>), Str(<<"P", "A", "T", "C", "H">>),
     Str(VerbMethod("get"))}

\* the options a caller passes: none, a string, or an object with or
\* without a method, a body and headers
OptionValues ==
    {Undef, Str(<<"x">>), EmptyObject,
     Obj([body |-> Str(<<"{", "}">>)]), Obj([headers |-> OtherHeaders])}
    \cup {Obj([method |-> m]) : m \in MethodValues}
    \cup {Obj([method |-> m, body |-> Str(<<"{", "}">>)]) : m \in MethodValues}

Verbs == {"get", "post", "put", "delete"}

\* the urls of the endpoint objects of the file
EndpointUrls(l) ==
    {AccountUrl, AllChatsUrl("org1"), SingleChatUrl("org1", "chat1"), SendMessageUrl}
    \cup (IF l = "legacy" THEN {}
          ELSE {GenerateChatTitleUrl, AccountAuthUrl, LogoutUrl})

\* a caller calls a verb of an endpoint object
CallVerb(url, verb, options) ==
    /\ wire' = [call |-> [url |-> url, verb |-> verb, options |-> options,
                          endpoint |-> EndpointObject(lib, url)],
                outcome |-> Verb(lib, EndpointObject(lib, url), verb, options)]
    /\ UNCHANGED <<dvars, cvars>>

InitVerb ==
    /\ DInit
    /\ lib \in Libs
    /\ orgUUID = UNDEF
    /\ calls = [c \in 1..MaxCalls |-> Idle]
    /\ serverOrg = "org1"
    /\ serverChats = <<>>
    /\ faults = 0
    /\ crypto = TRUE
    /\ minted = 0
    /\ wire = Unsent

NextVerb ==
    \E url \in EndpointUrls(lib), verb \in Verbs, options \in OptionValues :
        CallVerb(url, verb, options)

SpecVerb == InitVerb /\ [][NextVerb]_vars



----------------------------------------------------------------------------
(* What the specification says of a body, stated on the body itself *)

IsDataChunk(c) == c.shape \in {"data", "extra"}
IsBlankChunk(c) == c.shape \in {"blank", "white"}

\* every line of the body is a data line carrying a completion fragment
WellFormed(cs) == cs # <<>> /\ \A k \in 1..Len(cs) : IsDataChunk(cs[k])

\* f1 + f2 + ... + fN, in line order
RECURSIVE ConcatFragments(_)
ConcatFragments(cs) ==
    IF cs = <<>> THEN <<>>
    ELSE (IF IsDataChunk(Head(cs)) THEN Head(cs).frag ELSE <<>>)
         \o ConcatFragments(Tail(cs))

IsBlankLine(line) == \A k \in 1..Len(line) : IsWhite(line[k])

\* the lines the specification retains: those not empty or whitespace-only
RetainedLines(text) == SelectSeq(SplitLines(text), LAMBDA l : ~IsBlankLine(l))

HasPrefix(line) == MatchesAt(line, 1, DataPrefix)

\* the text after the literal prefix
Suffix(line) == SubSeq(line, Len(DataPrefix) + 1, Len(line))

\* a line without the prefix at its start, or whose suffix is not JSON
MalformedLine(line) == ~HasPrefix(line) \/ ~JsonParse(Suffix(line)).ok

\* a line whose suffix parses to an object with no completion field
LacksCompletion(line) ==
    /\ HasPrefix(line)
    /\ JsonParse(Suffix(line)).ok
    /\ GetField(JsonParse(Suffix(line)).obj, CompletionKey) = Undefined

FirstBodyReturned == dstage = "returned" /\ round = 1

\* C1: for a body of N data lines with fragments f1..fN (empty fragments and
\* fragments holding the text "data: " included), sendMessage returns
\* trim(f1 + ... + fN).
C1_ReturnsTrimmedConcatenation ==
    (FirstBodyReturned /\ WellFormed(chunks))
        => /\ returned.kind = "string"
           /\ returned.value = Trim(ConcatFragments(chunks))

\* C4: when a retained line does not begin with "data: ", or the text after
\* the prefix is not JSON, decoding fails and no string is returned.
C4_MalformedLineRejected ==
    (FirstBodyReturned
        /\ \E k \in 1..Len(RetainedLines(bodyText)) :
              MalformedLine(RetainedLines(bodyText)[k]))
        => returned.kind = "throw"

\* C5: when a retained line parses to an object without a completion field,
\* decoding fails instead of returning a string.
C5_MissingCompletionRejected ==
    (FirstBodyReturned
        /\ \E k \in 1..Len(RetainedLines(bodyText)) :
              LacksCompletion(RetainedLines(bodyText)[k]))
        => returned.kind = "throw"

\* C6: empty and whitespace-only lines are discarded wherever they occur:
\* the body decodes to what it decodes to without them, and a body of
\* blank lines alone decodes to the empty string.
C6_BlankLinesDiscarded ==
    FirstBodyReturned
        => /\ returned = DecodeBody(Body(SelectSeq(chunks, LAMBDA c : ~IsBlankChunk(c)), cutTail))
           /\ (\A k \in 1..Len(chunks) : IsBlankChunk(chunks[k]))
                  => returned = StringValue(<<>>)

\* C7: for a well-formed body, decoding the single line
\* data: {"completion": decode(body)} returns decode(body).
C7_RewrapIdempotent ==
    (dstage = "returned" /\ round = 2 /\ WellFormed(chunks))
        => returned = firstReturned


----------------------------------------------------------------------------
(* What the specification says of the calls *)

Started(c) == calls[c].pc # "idle"

IsRequest(e) == e.t = "req"
IsAccountLookup(e) == IsRequest(e) /\ e.url = AccountUrl
IsListFetch(e) == IsRequest(e) /\ e.method = "GET" /\ Len(e.url) = 3
\* a request other than those getUserDetails and getAllChatsDetails send
IsOwnRequest(e) == IsRequest(e) /\ ~IsAccountLookup(e) /\ ~IsListFetch(e)

TraceOf(c) == calls[c].trace
Entries(c) == 1..Len(calls[c].trace)

\* the call has received its chat list
ListFetched(c) ==
    \E k \in Entries(c) : IsListFetch(TraceOf(c)[k]) /\ TraceOf(c)[k].out \in {"ok", "http_error"}

Says(c, level, msg) ==
    \E k \in Entries(c) : TraceOf(c)[k].t = "log" /\ TraceOf(c)[k] = Console(level, msg)

Threw(c, msg) == calls[c].result = Thrown(msg)

OutOfBoundsSignalled(c) ==
    \/ Says(c, "error", "Chat index is out of bounds")
    \/ Threw(c, "Chat index is out of bounds")

\* the operation takes a chat index, and is given a number as its index
NumericIndexCall(c) ==
    /\ Started(c)
    /\ calls[c].inv.op \in IndexOps
    /\ TypeOf(calls[c].inv.chatIndex) = "number"

\* C2: in an index-taking operation given a number as its index, a fetched
\* list of length 0 makes the operation warn 'No chats found' and return,
\* never signalling an out-of-bounds error; with a list of length >= 1, an
\* index < 0 or >= length is signalled as out of bounds, and no request on
\* a chat is sent.
C2_EmptyListThenBounds ==
    \A c \in 1..MaxCalls :
        (NumericIndexCall(c) /\ ListFetched(c)) =>
            /\ Len(calls[c].chats) = 0 =>
                  /\ Says(c, "warn", "No chats found")
                  /\ ~OutOfBoundsSignalled(c)
                  /\ calls[c].result = Returned(Undefined)
            /\ (Len(calls[c].chats) >= 1 /\ OutOfBounds(calls[c].inv.chatIndex, calls[c].chats)) =>
                  /\ OutOfBoundsSignalled(c)
                  /\ calls[c].pc = "done"
                  /\ \A k \in Entries(c) : ~IsOwnRequest(TraceOf(c)[k])

\* the list is empty and the index, 1, would be out of bounds of any list
\* of one chat: the call has warned 'No chats found'
C2_Witness ==
    /\ NumericIndexCall(1)
    /\ ListFetched(1)
    /\ calls[1].chats = <<>>
    /\ calls[1].inv.chatIndex = Num(1)
    /\ Says(1, "warn", "No chats found")

\* the errors of validation the claim C3 names, and the empty-result warning
ValidationMessages ==
    { "Chat index must be specified", "Chat index must be a number",
      "Chat index is out of bounds", "No chats found",
      "Either message or attachments must be included", "Message must be included",
      "Message must be a string", "Message must not be empty",
      "Message hint is required", "Message hint must be a string",
      "Message hint must not be empty" }

\* the call has signalled one of them, on the console or by throwing
ValidationSignalled(c) ==
    /\ Started(c)
    /\ \/ \E k \in Entries(c) :
             TraceOf(c)[k].t = "log" /\ TraceOf(c)[k].msg \in ValidationMessages
       \/ \E msg \in ValidationMessages : Threw(c, msg)

\* C3 as stated: a call that signals a validation error or the empty-result
\* warning has issued no network request at all.
C3_SignalledBeforeAnyRequest ==
    \A c \in 1..MaxCalls :
        ValidationSignalled(c) => \A k \in Entries(c) : ~IsRequest(TraceOf(c)[k])

\* C3 as amended: a call that signals a validation error or the empty-result
\* warning has issued no request of its own; the requests it has issued are
\* the account lookup and the fetch of the chat list.
C3_SignalledBeforeOwnRequest ==
    \A c \in 1..MaxCalls :
        ValidationSignalled(c) =>
            /\ calls[c].pc = "done"
            /\ \A k \in Entries(c) : ~IsOwnRequest(TraceOf(c)[k])

\* generateChatTitle with a valid index and a blank hint has ended in the
\* hint's validation error, after the account lookup and the list fetch
C3_Witness ==
    /\ Started(1)
    /\ calls[1].inv.op = "generateChatTitle"
    /\ Says(1, "error", "Message hint must not be empty")
    /\ \E k \in Entries(1) : IsListFetch(TraceOf(1)[k])
    /\ \E k \in Entries(1) : IsAccountLookup(TraceOf(1)[k])


DeleteAllCall(c) == Started(c) /\ calls[c].inv.op = "deleteAllChats"

\* the DELETE requests the call has issued, in the order of their issue
Deletes(c) == SelectSeq(TraceOf(c), LAMBDA e : IsRequest(e) /\ e.method = "DELETE")

\* the call has a list of at least one chat and is past its checks
FannedOut(c) ==
    /\ DeleteAllCall(c)
    /\ calls[c].pc \in {"batch", "done"}
    /\ ListFetched(c)
    /\ Len(calls[c].chats) >= 1

\* C8: deleteAllChats on a fetched list of N >= 1 chats has issued, from the
\* step that issues the first one on, exactly N DELETE requests, the k-th on
\* the k-th chat of that list, and none before; after one of them failed
\* (and the call with it) the N requests are still there, in flight or
\* answered.
C8_FanOutOnePerChat ==
    \A c \in 1..MaxCalls :
        DeleteAllCall(c) =>
            IF FannedOut(c)
            THEN /\ Len(Deletes(c)) = Len(calls[c].chats)
                 /\ \A k \in 1..Len(calls[c].chats) :
                       /\ Deletes(c)[k].url = SingleChatUrl(orgUUID, calls[c].chats[k])
                       /\ Deletes(c)[k].out \in Outcomes \cup {"pending"}
            ELSE Deletes(c) = <<>>

\* deleteAllChats on two chats: the first DELETE failed in the network, the
\* call failed with it, and the second DELETE was carried out
C8_Witness ==
    /\ FannedOut(1)
    /\ Len(calls[1].chats) = 2
    /\ calls[1].result = Thrown("Failed to fetch")
    /\ Deletes(1)[1].out = "net_error"
    /\ Deletes(1)[2].out = "ok"

\* C9: deleteAllChats logs 'Deleted all chats' and completes if and only if
\* every one of its deletes succeeded, fails when a delete failed, and never
\* logs while a delete of the batch is unresolved.
C9_SuccessIffEveryDeleteSucceeded ==
    \A c \in 1..MaxCalls :
        (FannedOut(c) /\ calls[c].pc = "done") =>
            LET allOk == \A k \in 1..Len(Deletes(c)) : Deletes(c)[k].out = "ok"
                someFailed == \E k \in 1..Len(Deletes(c)) :
                                 Deletes(c)[k].out \in {"http_error", "net_error"}
                success == /\ Says(c, "log", "Deleted all chats")
                           /\ calls[c].result = Returned(Undefined)
            IN /\ success <=> allOk
               /\ someFailed => calls[c].result.kind = "throw"

\* C10: once claudejs.orgUUID holds an identifier, no step of any operation
\* changes it.
C10_CacheNeverOverwritten == [][orgUUID # UNDEF => orgUUID' = orgUUID]_vars

\* two calls both found the cache empty and looked the account up; both
\* lookups were answered, the account's organization changed meanwhile, and
\* the cache holds the first identifier
C10_Witness ==
    /\ Started(1) /\ Started(2)
    /\ IsAccountLookup(TraceOf(1)[1]) /\ TraceOf(1)[1].out = "ok"
    /\ IsAccountLookup(TraceOf(2)[1]) /\ TraceOf(2)[1].out = "ok"
    /\ calls[1].inv.op # "getUserDetails"
    /\ calls[2].inv.op # "getUserDetails"
    /\ serverOrg = "org2"
    /\ orgUUID = "org1"

----------------------------------------------------------------------------
(* The chat an index stands for *)

\* the chat a request names, in its url or in its body
RequestChat(e) == IF e.conv # UNDEF THEN e.conv ELSE e.url[4]

IndexCallStarted(c) == Started(c) /\ calls[c].inv.op \in IndexOps

\* the request of an index-taking call names the chat at position chatIndex
\* of the call's own list
NamesOwnListEntry(c) ==
    \A k \in Entries(c) :
        IsOwnRequest(TraceOf(c)[k]) =>
            /\ ListFetched(c)
            /\ ~calls[c].inv.chatIndex.nan
            /\ calls[c].inv.chatIndex.n + 1 \in 1..Len(calls[c].chats)
            /\ RequestChat(TraceOf(c)[k]) = calls[c].chats[calls[c].inv.chatIndex.n + 1]

\* the list of a call is written once, in the step that answers the call's
\* own list fetch, with what the server holds at that moment
OwnListFromOwnFetch(c) ==
    (Started(c) /\ calls'[c].pc # "idle" /\ calls'[c].chats # calls[c].chats) =>
        /\ calls[c].pc = "list_chats"
        /\ calls[c].chats = <<>>
        /\ calls'[c].chats = serverChats

\* C11: the chat uuid in the request of an index-taking operation is the
\* uuid at position chatIndex of the list that the same call fetched after
\* it started; the list of a call comes from no other call's fetch.
C11_IndexResolvedInOwnList ==
    /\ [](\A c \in 1..MaxCalls : IndexCallStarted(c) => NamesOwnListEntry(c))
    /\ [][\A c \in 1..MaxCalls : OwnListFromOwnFetch(c)]_vars

\* an earlier deleteChat(0) removed the first of two chats; a later call
\* with index 0 fetched the shorter list and names its first chat, which
\* is not the chat the earlier call's list has at 0
C11_Witness ==
    /\ IndexCallStarted(1) /\ IndexCallStarted(2)
    /\ calls[1].inv.chatIndex = Num(0) /\ calls[2].inv.chatIndex = Num(0)
    /\ calls[1].chats = <<"chat1", "chat2">>
    /\ calls[2].chats = <<"chat2">>
    /\ \E k \in Entries(2) :
          IsOwnRequest(TraceOf(2)[k]) /\ RequestChat(TraceOf(2)[k]) = "chat2"

----------------------------------------------------------------------------
(* startNewChat *)

\* the call is one of startNewChat that passed the checks of its arguments
StartNewChatCalled(c) == Started(c) /\ calls[c].frame.stage # "none"

\* startNewChat has returned
StartNewChatReturned(c) ==
    /\ StartNewChatCalled(c)
    /\ calls[c].frame.stage = "finished"
    /\ calls[c].result.kind = "return"

IsAppendMessage(e) == IsRequest(e) /\ e.url = SendMessageUrl
IsGenerateTitle(e) == IsRequest(e) /\ e.url = GenerateChatTitleUrl
IsCreateChat(e) == IsRequest(e) /\ e.method = "POST" /\ Len(e.url) = 3

\* every request the call has issued was answered with a 2xx response
AllAnsweredOk(c) ==
    \A k \in Entries(c) : IsRequest(TraceOf(c)[k]) => TraceOf(c)[k].out = "ok"

\* C12: in a page with window.crypto, a startNewChat call never names, in
\* an append_message or generate_chat_title request, another chat than the
\* one it created; once it has returned with all its requests answered 2xx,
\* it has sent one append_message request for that chat, it has sent a
\* generate_chat_title request exactly when title is empty, and it has
\* returned the details of the chat it created.
C12_FirstMessageInCreatedChat ==
    \A c \in 1..MaxCalls :
        (crypto /\ StartNewChatCalled(c)) =>
            /\ \A k \in Entries(c) :
                  (IsAppendMessage(TraceOf(c)[k]) \/ IsGenerateTitle(TraceOf(c)[k]))
                      => TraceOf(c)[k].conv = calls[c].uuid
            /\ (StartNewChatReturned(c) /\ AllAnsweredOk(c)) =>
                  /\ Cardinality({k \in Entries(c) : IsAppendMessage(TraceOf(c)[k])}) = 1
                  /\ (\E k \in Entries(c) : IsGenerateTitle(TraceOf(c)[k]))
                        <=> ~Truthy(calls[c].inv.title)
                  /\ calls[c].result = Returned(ChatData(calls[c].uuid))

\* C18: a startNewChat call that has logged 'Chat started successfully', or
\* has returned normally past its checks, has issued a POST /append_message
\* request; it has not when the chat it created is not in the list it
\* fetched (index -1), when that list is empty, or when createEmptyChat
\* returned no data.
C18_SuccessOnlyAfterAppend ==
    \A c \in 1..MaxCalls :
        (StartNewChatCalled(c)
         /\ (Says(c, "log", "Chat started successfully") \/ StartNewChatReturned(c))) =>
            \E k \in Entries(c) : IsAppendMessage(TraceOf(c)[k])

----------------------------------------------------------------------------
(* Failures and retries *)

\* no request is issued twice in the call
NoRequestRepeated(c) ==
    \A j, k \in Entries(c) :
        (j < k /\ IsRequest(TraceOf(c)[j]) /\ IsRequest(TraceOf(c)[k])) =>
            \/ TraceOf(c)[j].method # TraceOf(c)[k].method
            \/ TraceOf(c)[j].url # TraceOf(c)[k].url

\* a request of the call failed: fetch rejected, or the response has an
\* error status
RequestFailed(c, kinds) ==
    \E k \in Entries(c) : IsRequest(TraceOf(c)[k]) /\ TraceOf(c)[k].out \in kinds

\* C13: no call issues the same request twice, and a call one of whose
\* requests failed, in the network or with an HTTP error status, has itself
\* failed: it has not returned, and a network failure is the error it
\* throws.
C13_NoRetryFailuresPropagate ==
    \A c \in 1..MaxCalls :
        Started(c) =>
            /\ NoRequestRepeated(c)
            /\ RequestFailed(c, {"net_error", "http_error"}) =>
                  /\ calls[c].pc = "done"
                  /\ calls[c].result.kind = "throw"
            /\ RequestFailed(c, {"net_error"}) => Threw(c, "Failed to fetch")

----------------------------------------------------------------------------
(* The endpoint table *)

\* the endpoint a url belongs to
EndpointOf(url) ==
    CASE url = AccountUrl -> "ACCOUNT"
      [] url = SendMessageUrl -> "SEND_MESSAGE"
      [] url = GenerateChatTitleUrl -> "GENERATE_CHAT_TITLE"
      [] url = AccountAuthUrl -> "ACCOUNT_AUTH"
      [] url = LogoutUrl -> "LOGOUT"
      [] Len(url) = 3 /\ url = AllChatsUrl(url[2]) -> "ALL_CHATS"
      [] Len(url) = 4 /\ url = SingleChatUrl(url[2], url[4]) -> "SINGLE_CHAT"
      [] OTHER -> "none"

\* the request an operation exists for, as the endpoint table has it
TableEntry(op) ==
    CASE op = "getUserDetails" -> {<<"GET", "ACCOUNT">>}
      [] op = "getAllChatsDetails" -> {<<"GET", "ALL_CHATS">>}
      [] op = "getChatDetails" -> {<<"GET", "SINGLE_CHAT">>}
      [] op = "renameChatTitle" -> {<<"PUT", "SINGLE_CHAT">>}
      [] op \in {"deleteChat", "deleteAllChats"} -> {<<"DELETE", "SINGLE_CHAT">>}
      [] op = "createEmptyChat" -> {<<"POST", "ALL_CHATS">>}
      [] op = "sendMessage" -> {<<"POST", "SEND_MESSAGE">>}
      [] op = "generateChatTitle" -> {<<"POST", "GENERATE_CHAT_TITLE">>}
      [] op = "updateAccountInfo" -> {<<"PUT", "ACCOUNT_AUTH">>}
      [] op = "logout" -> {<<"POST", "LOGOUT">>}
      [] op = "startNewChat" ->
            {<<"POST", "ALL_CHATS">>, <<"POST", "SEND_MESSAGE">>,
             <<"POST", "GENERATE_CHAT_TITLE">>}
      [] OTHER -> {}

\* the lookups an operation makes before its own request
Lookups(op) ==
    IF op = "logout" THEN {}
    ELSE IF op \in {"getUserDetails", "createEmptyChat", "updateAccountInfo"}
         THEN {<<"GET", "ACCOUNT">>}
         ELSE {<<"GET", "ACCOUNT">>, <<"GET", "ALL_CHATS">>}

\* the operation the caller invoked: startNewChat while it runs the
\* operations it is made of
CalledOp(c) ==
    IF calls[c].frame.stage = "none" THEN calls[c].inv.op
    ELSE calls[c].frame.inv.op

\* the organization a request names in its path is the cached identifier
NamesCachedOrg(e) ==
    EndpointOf(e.url) \in {"ALL_CHATS", "SINGLE_CHAT"} =>
        /\ orgUUID # UNDEF
        /\ e.url[2] = orgUUID

\* C14: every request of an operation has the method and the path the
\* endpoint table gives for that operation (or is the account lookup or the
\* list fetch before it), names the cached organization in its path, never
\* an undefined one, and declares a JSON content type.
C14_RequestsFollowEndpointTable ==
    \A c \in 1..MaxCalls :
        Started(c) =>
            \A k \in Entries(c) :
                IsRequest(TraceOf(c)[k]) =>
                    /\ <<TraceOf(c)[k].method, EndpointOf(TraceOf(c)[k].url)>>
                          \in TableEntry(CalledOp(c)) \cup Lookups(CalledOp(c))
                    /\ NamesCachedOrg(TraceOf(c)[k])
                    /\ TraceOf(c)[k].ctype = "application/json"

\* a rename has sent its PUT to the chat's path, and it was answered
C14_Witness ==
    \E c \in 1..MaxCalls :
        /\ Started(c)
        /\ calls[c].inv.op = "renameChatTitle"
        /\ calls[c].pc = "done"
        /\ \E k \in Entries(c) :
              /\ IsRequest(TraceOf(c)[k])
              /\ TraceOf(c)[k].method = "PUT"
              /\ EndpointOf(TraceOf(c)[k].url) = "SINGLE_CHAT"
              /\ TraceOf(c)[k].url[2] = orgUUID
              /\ TraceOf(c)[k].out = "ok"

----------------------------------------------------------------------------
(* sendMessage and its returnResponse flag *)

SendMessageCall(c) == Started(c) /\ calls[c].inv.op = "sendMessage"

\* the POST /append_message requests of the call
AppendMessages(c) == SelectSeq(TraceOf(c), IsAppendMessage)

\* the call returned a string
ReturnedString(c) ==
    /\ calls[c].pc = "done"
    /\ calls[c].result.kind = "return"
    /\ calls[c].result.value # Undefined

\* the call read the body of a response
ReadBody(c) == \E k \in Entries(c) : TraceOf(c)[k] = BodyRead

\* C15: a sendMessage call returns a string only if returnResponse is true
\* and it issued its POST /append_message; when returnResponse is true and
\* the POST was answered with the stream, the call returns the decoded text
\* of that body; when returnResponse is false the call issues one POST at
\* most, the same request, never reads a body and returns undefined once
\* the POST is answered.
C15_ResponseReturnedIffAsked ==
    \A c \in 1..MaxCalls :
        SendMessageCall(c) =>
            /\ Len(AppendMessages(c)) <= 1
            /\ ReturnedString(c) =>
                  /\ calls[c].inv.returnResponse = Bool(TRUE)
                  /\ Len(AppendMessages(c)) = 1
            /\ ReadBody(c) => calls[c].inv.returnResponse = Bool(TRUE)
            /\ (Len(AppendMessages(c)) = 1 /\ AppendMessages(c)[1].out = "ok") =>
                  /\ calls[c].pc = "done"
                  /\ AppendMessages(c)[1]
                        = [Post(SendMessageUrl, calls[c].chats[calls[c].inv.chatIndex.n + 1])
                             EXCEPT !.out = "ok"]
                  /\ IF calls[c].inv.returnResponse = Bool(TRUE)
                     THEN /\ ReadBody(c)
                          /\ DecodedOk.kind = "string"
                          /\ calls[c].result = Returned(DecodedOk.value)
                     ELSE /\ ~ReadBody(c)
                          /\ calls[c].result = Returned(Undefined)

\* a call with returnResponse true has read the body and returned the
\* decoded text
C15_Witness ==
    \E c \in 1..MaxCalls :
        /\ SendMessageCall(c)
        /\ lib = "index.js"
        /\ calls[c].inv.returnResponse = Bool(TRUE)
        /\ ReturnedString(c)
        /\ ReadBody(c)
        /\ Len(AppendMessages(c)) = 1

\* a call with returnResponse false had its POST answered and returned
\* undefined
C15_WitnessNotAsked ==
    \E c \in 1..MaxCalls :
        /\ SendMessageCall(c)
        /\ calls[c].inv.returnResponse = Bool(FALSE)
        /\ calls[c].pc = "done"
        /\ Len(AppendMessages(c)) = 1
        /\ AppendMessages(c)[1].out = "ok"
        /\ calls[c].result = Returned(Undefined)

----------------------------------------------------------------------------
(* sendMessage and its input checks *)

\* the index is a number that names an entry of the list the call fetched
IndexInRange(c) ==
    /\ TypeOf(calls[c].inv.chatIndex) = "number"
    /\ ~calls[c].inv.chatIndex.nan
    /\ calls[c].inv.chatIndex.n \in 0..(Len(calls[c].chats) - 1)

\* a message or an attachment is present, and the message, if there is
\* one, is a string that is not blank
MessageAcceptable(c) ==
    /\ Truthy(calls[c].inv.text) \/ Len(calls[c].inv.attachments) > 0
    /\ Truthy(calls[c].inv.text) =>
          /\ TypeOf(calls[c].inv.text) = "string"
          /\ ~BlankString(calls[c].inv.text)

\* every attachment has the four fields and no other
AttachmentsAcceptable(c) ==
    \A k \in 1..Len(calls[c].inv.attachments) :
        calls[c].inv.attachments[k] = AttachmentFields

\* C17: a sendMessage call of index.js that has issued POST /append_message
\* passed every input check: the index is a number in the range of the list,
\* a message or an attachment is present, the message if given is a string
\* that is not blank, every attachment has exactly the four fields, and
\* returnResponse is a boolean.
C17_PostOnlyAfterAllChecks ==
    \A c \in 1..MaxCalls :
        (SendMessageCall(c) /\ lib = "index.js" /\ Len(AppendMessages(c)) > 0) =>
            /\ IndexInRange(c)
            /\ MessageAcceptable(c)
            /\ AttachmentsAcceptable(c)
            /\ TypeOf(calls[c].inv.returnResponse) = "boolean"

----------------------------------------------------------------------------
(* Lazy population of the organization identifier *)

\* the account lookups made to fill the cache that are in flight or have
\* succeeded: GET /account requests of calls other than explicit
\* getUserDetails and updateAccountInfo calls
LazyLookups ==
    UNION { { <<c, k>> : k \in { j \in Entries(c) :
                                    /\ IsRequest(TraceOf(c)[j])
                                    /\ TraceOf(c)[j].url = AccountUrl
                                    /\ TraceOf(c)[j].out \in {"pending", "ok"} } } :
            c \in { d \in 1..MaxCalls :
                      /\ Started(d)
                      /\ CalledOp(d) \notin {"getUserDetails", "updateAccountInfo"} } }

\* C19: whatever the interleaving of the calls, at most one account lookup
\* made to fill the cache is in flight or has succeeded: no second one is
\* issued after that.
C19_OneLazyAccountLookup == Cardinality(LazyLookups) <= 1

----------------------------------------------------------------------------
(* Completion of the operations *)

\* every call that was started completes: it returns or it throws
EveryCallCompletes ==
    \A c \in 1..MaxCalls : Started(c) ~> (calls[c].pc = "done")

\* a call that has completed has no request in flight
NoneInFlightAtCompletion ==
    \A c \in 1..MaxCalls :
        (Started(c) /\ calls[c].pc = "done") => PendingRequests(calls[c]) = {}

\* C16: when every request is answered in the end, every operation
\* completes in the end, and no operation has completed while one of the
\* requests it issued is still unanswered.
C16_CompletesWhenRequestsResolve ==
    EveryCallCompletes /\ []NoneInFlightAtCompletion

----------------------------------------------------------------------------
(* The verbs and the method of the options *)

\* a verb was called and fetch sent a request
VerbSent == wire # Unsent /\ wire.outcome.kind = "sent"

\* C20: a request sent by a call of get, post, put or delete has the method
\* of the verb that was called and the url of the endpoint object,
\* whatever the options hold as their method, and the call leaves the
\* endpoint object, its url and its headers, as it was.
C20_VerbDecidesMethod ==
    /\ VerbSent =>
          /\ wire.outcome.request.method = VerbMethod(wire.call.verb)
          /\ wire.outcome.request.url = wire.call.url
    /\ wire # Unsent => wire.outcome.endpoint = wire.call.endpoint

=============================================================================
